---- MODULE Spec2Model ----
(***************************************************************************)
(* A model of the markdown-to-HTML site builder: the page assembler        *)
(* (webpage.c) and the build script that drives it (webpages.sh).          *)
(*                                                                         *)
(* Text is modelled as a sequence of elements.  User data (file names,     *)
(* command line words, file contents) is a sequence of one-character       *)
(* strings, so that strstr, strrchr, strcat, strcmp, strtol and the shell  *)
(* patterns are computed character by character.  A string constant of     *)
(* the C source that is written to the page ("<html>\n") is one element.   *)
(***************************************************************************)
EXTENDS Integers, Sequences, FiniteSets, TLC

(***************************** bounds **************************************)

\* at most this many files in the markdown tree of a build
MaxFiles == 3

\* the deepest directory an assembler is started in by hand is this far
\* below "/"
MaxDepth == 3

\* st_blksize of the file system, the unit copyFile reads by
BlkSize == 2

(***************************** text ****************************************)

RECURSIVE Cat(_)
Cat(ss) == IF ss = <<>> THEN <<>> ELSE Head(ss) \o Cat(Tail(ss))

RECURSIVE Repeat(_, _)
Repeat(s, n) == IF n = 0 THEN <<>> ELSE s \o Repeat(s, n - 1)

StartsAt(s, sub, i) ==
    /\ i + Len(sub) - 1 <= Len(s)
    /\ SubSeq(s, i, i + Len(sub) - 1) = sub

\* strstr( s, sub ) != NULL
strstr(s, sub) == \E i \in 1..Len(s) : StartsAt(s, sub, i)

\* strrchr( s, c ): the index of the last c in s, 0 for NULL
strrchr(s, c) ==
    LET at == {i \in 1..Len(s) : s[i] = c}
    IN  IF at = {} THEN 0 ELSE CHOOSE i \in at : \A j \in at : j <= i

\* the shell pattern *suffix of find -name
EndsWith(s, suf) ==
    /\ Len(s) >= Len(suf)
    /\ SubSeq(s, Len(s) - Len(suf) + 1, Len(s)) = suf

DotMd     == <<".", "m", "d">>
DotTxt    == <<".", "t", "x", "t">>
DotHtml   == <<".", "h", "t", "m", "l">>
DotCss    == <<".", "c", "s", "s">>
DotBackup == <<".", "b", "a", "c", "k", "u", "p">>
DotSlash  == <<".", "/">>
UpSlash   == <<".", ".", "/">>

(***************************** strtol **************************************)

HexDigits == <<"0", "1", "2", "3", "4", "5", "6", "7", "8", "9",
               "a", "b", "c", "d", "e", "f">>
HexUpper  == <<"0", "1", "2", "3", "4", "5", "6", "7", "8", "9",
               "A", "B", "C", "D", "E", "F">>

IsHex(c) == \E i \in 1..16 : HexDigits[i] = c \/ HexUpper[i] = c
HexVal(c) == (CHOOSE i \in 1..16 : HexDigits[i] = c \/ HexUpper[i] = c) - 1

RECURSIVE HexPrefixValue(_, _)
HexPrefixValue(s, acc) ==
    IF s = <<>> \/ ~IsHex(Head(s)) THEN acc
    ELSE HexPrefixValue(Tail(s), 16 * acc + HexVal(Head(s)))

\* strtol( s, NULL, 16 ): an optional sign, an optional 0x, then the hex
\* digits up to the first character that is none
strtol16(s) ==
    LET neg  == s # <<>> /\ s[1] = "-"
        s1   == IF s # <<>> /\ s[1] \in {"-", "+"} THEN Tail(s) ELSE s
        pfx  == /\ Len(s1) >= 3
                /\ s1[1] = "0"
                /\ s1[2] \in {"x", "X"}
                /\ IsHex(s1[3])
        s2   == IF pfx THEN SubSeq(s1, 3, Len(s1)) ELSE s1
        v    == HexPrefixValue(s2, 0)
    IN  IF neg THEN 0 - v ELSE v

\* flag & flags for a one-bit flag; a long is two's complement, so the low
\* bits of a negative value are those of its residue
BitAnd(flag, flags) == ((flags % (2 * flag)) \div flag) = 1

flag_dtd      == 1
flag_title    == 2
flag_datetime == 4
flag_author   == 8

(***************************** getopt **************************************)

\* an argv element that getopt takes for options
IsOptElem(w) == Len(w) >= 2 /\ w[1] = "-"

OptString1 == [c \in {"v"} |-> FALSE]
OptString2 == [c \in {"h", "v", "f", "c", "n"} |-> c \in {"f", "c", "n"}]

NoArg == <<"(null)">>

\* One complete scan of the arguments by GNU getopt with permutation:
\* the options found, in order, each with its argument; the arguments in
\* the order getopt leaves them in (option elements first, each followed by
\* the argument it took, then the non-options); optind at the end.
RECURSIVE ScanElem(_, _, _, _, _)
RECURSIVE ScanArgs(_, _, _)
ScanArgs(args, optstring, acc) ==
    IF args = <<>> THEN acc
    ELSE IF ~IsOptElem(Head(args))
    THEN ScanArgs(Tail(args), optstring,
                  [acc EXCEPT !.nonopts = Append(@, Head(args))])
    ELSE ScanElem(Head(args), 2, Tail(args), optstring,
                  [acc EXCEPT !.opts = Append(@, Head(args))])

ScanElem(w, i, rest, optstring, acc) ==
    IF i > Len(w) THEN ScanArgs(rest, optstring, acc)
    ELSE LET c == w[i] IN
      IF c \notin DOMAIN optstring
      THEN ScanElem(w, i + 1, rest, optstring,
             [acc EXCEPT !.events = Append(@, [opt |-> "?", optopt |-> c, optarg |-> NoArg])])
      ELSE IF ~optstring[c]
      THEN ScanElem(w, i + 1, rest, optstring,
             [acc EXCEPT !.events = Append(@, [opt |-> c, optopt |-> c, optarg |-> NoArg])])
      ELSE IF i < Len(w)
      THEN ScanArgs(rest, optstring,
             [acc EXCEPT !.events = Append(@, [opt |-> c, optopt |-> c,
                                               optarg |-> SubSeq(w, i + 1, Len(w))])])
      ELSE IF rest # <<>>
      THEN ScanArgs(Tail(rest), optstring,
             [acc EXCEPT !.events = Append(@, [opt |-> c, optopt |-> c, optarg |-> Head(rest)]),
                         !.opts = Append(@, Head(rest))])
      ELSE ScanArgs(rest, optstring,
             [acc EXCEPT !.events = Append(@, [opt |-> "?", optopt |-> c, optarg |-> NoArg])])

getopt(args, optstring) ==
    LET r == ScanArgs(args, optstring, [events |-> <<>>, opts |-> <<>>, nonopts |-> <<>>])
    IN  [events |-> r.events, argv |-> r.opts \o r.nonopts, naked |-> r.nonopts]

(***************************** options *************************************)

EXIT_NORMAL                    == 0
EXIT_NO_MARKDOWN               == -1
EXIT_MISSING_VALUE             == -2
EXIT_UNKNOWN_OPTION            == -3
EXIT_NO_CSS_FILE               == -4
EXIT_ABS_PATH_REQUIRED         == -5
EXIT_INVOKED_OUTSIDE_HTML_ROOT == -6

\* what the parent process sees of exit( code )
ShellStatus(code) == code % 256

NULL == <<"(NULL)">>

g_Options ==
    [includeTitle |-> TRUE, includeDTD |-> TRUE, includeAuthor |-> TRUE,
     includeDatetime |-> TRUE, cssRoot |-> NULL, navEmbedCode |-> NULL,
     verbose |-> FALSE]

\* case 'f' with the datetime and author bits taken for each other
SetFlagsSwapped(o, optarg) ==
    LET flags == strtol16(optarg)
    IN  [o EXCEPT !.includeDTD      = IF BitAnd(flag_dtd, flags) THEN FALSE ELSE @,
                  !.includeTitle    = IF BitAnd(flag_title, flags) THEN FALSE ELSE @,
                  !.includeAuthor   = IF BitAnd(flag_datetime, flags) THEN FALSE ELSE @,
                  !.includeDatetime = IF BitAnd(flag_author, flags) THEN FALSE ELSE @]

\* case 'f' of getOptions
SetFlags(o, optarg) ==
    LET flags == strtol16(optarg)
    IN  [o EXCEPT !.includeDTD      = IF BitAnd(flag_dtd, flags) THEN FALSE ELSE @,
                  !.includeTitle    = IF BitAnd(flag_title, flags) THEN FALSE ELSE @,
                  !.includeAuthor   = IF BitAnd(flag_author, flags) THEN FALSE ELSE @,
                  !.includeDatetime = IF BitAnd(flag_datetime, flags) THEN FALSE ELSE @]

\* the switch of the second getopt loop, option by option, up to the first exit
RECURSIVE OptionLoop(_, _)
OptionLoop(events, o) ==
    IF events = <<>> THEN [end |-> "run", code |-> 0, options |-> o]
    ELSE LET e == Head(events) IN
      CASE e.opt = "h" -> [end |-> "exit", code |-> EXIT_NORMAL, options |-> o]
        [] e.opt = "v" -> OptionLoop(Tail(events), o)
        [] e.opt = "f" -> OptionLoop(Tail(events), SetFlags(o, e.optarg))
        [] e.opt = "c" ->
             IF e.optarg = <<>> \/ e.optarg[1] # "/"
             THEN [end |-> "exit", code |-> EXIT_ABS_PATH_REQUIRED, options |-> o]
             ELSE OptionLoop(Tail(events), [o EXCEPT !.cssRoot = e.optarg])
        [] e.opt = "n" -> OptionLoop(Tail(events), [o EXCEPT !.navEmbedCode = e.optarg])
        [] e.opt = ":" -> [end |-> "exit", code |-> EXIT_MISSING_VALUE, options |-> o]
        [] e.opt = "?" -> [end |-> "exit", code |-> EXIT_UNKNOWN_OPTION, options |-> o]

\* a root cut at the first '.' that is not the first character
RootOfFirst(name) ==
    LET at == {i \in 2..Len(name) : name[i] = "."}
    IN  IF at = {} THEN name
        ELSE SubSeq(name, 1, (CHOOSE i \in at : \A j \in at : i <= j) - 1)

\* the file name without its last extension
RootOf(name) ==
    LET dot == strrchr(name, ".")
    IN  IF dot = 0 THEN name ELSE SubSeq(name, 1, dot - 1)

\* after the loop: the markdown file is the one argument that is left
Naked(r, naked) ==
    IF r.end # "run"
    THEN [end |-> r.end, code |-> r.code, options |-> r.options,
          markdown |-> <<>>, root |-> <<>>]
    ELSE IF naked = <<>>
    THEN [end |-> "exit", code |-> EXIT_NO_MARKDOWN, options |-> r.options,
          markdown |-> <<>>, root |-> <<>>]
    ELSE IF Len(naked) # 1
    THEN [end |-> "abort", code |-> 0, options |-> r.options,
          markdown |-> <<>>, root |-> <<>>]
    ELSE [end |-> "run", code |-> 0, options |-> r.options,
          markdown |-> naked[1], root |-> RootOf(naked[1])]

\* the second pass, over the arguments as the first pass has left them
SecondPass(pass2, verbose) ==
    Naked(OptionLoop(pass2.events, [g_Options EXCEPT !.verbose = verbose]), pass2.naked)

FirstPass(pass1) ==
    SecondPass(getopt(pass1.argv, OptString2),
               \E i \in 1..Len(pass1.events) : pass1.events[i].opt = "v")

\* getOptions: the first pass looks for v only and leaves argv permuted, the
\* second pass reads the options from the permuted argv
getOptions(args) == FirstPass(getopt(args, OptString1))

(***************************** file system *********************************)

\* A directory is the sequence of the names on the way to it from "/"; a file
\* is its directory followed by its name.  A file system is the set of its
\* directories and a function from its regular files to their contents.

Parent(dir) == IF dir = <<>> THEN dir ELSE SubSeq(dir, 1, Len(dir) - 1)

RECURSIVE Up(_, _)
Up(dir, k) == IF k = 0 THEN dir ELSE Up(Parent(dir), k - 1)

DirOf(path)  == SubSeq(path, 1, Len(path) - 1)
NameOf(path) == path[Len(path)]

IsPrefix(d, path) == Len(d) <= Len(path) /\ SubSeq(path, 1, Len(d)) = d

\* strictly below dir
Under(dir, path) == Len(dir) < Len(path) /\ IsPrefix(dir, path)

\* canonicalize_file_name of a directory
RECURSIVE PathText(_)
PathText(dir) ==
    IF dir = <<>> THEN <<"/">>
    ELSE IF Len(dir) = 1 THEN <<"/">> \o dir[1]
    ELSE PathText(Parent(dir)) \o <<"/">> \o dir[Len(dir)]

\* a file name given to fopen in the directory cwd
Resolve(cwd, name) ==
    IF StartsAt(name, DotSlash, 1)
    THEN Append(cwd, SubSeq(name, 3, Len(name)))
    ELSE Append(cwd, name)

\* the names readdir delivers for dir
Entries(files, dirs, dir) ==
    {NameOf(p) : p \in {q \in (DOMAIN files) \cup dirs : q # <<>> /\ DirOf(q) = dir}}

\* the first of the names in matches that readdir delivers, for a listing
\* order given as a sequence of names
FirstListed(matches, order) ==
    LET listed == {i \in 1..Len(order) : order[i] \in matches}
    IN  IF listed = {} THEN CHOOSE n \in matches : TRUE
        ELSE order[CHOOSE i \in listed : \A j \in listed : i <= j]

Write(files, path, content) == (path :> content) @@ files

(***************************** findCssFile *********************************)

\* The do-while loop of findCssFile from its k-th iteration on, searchDir
\* being "./" followed by k "../".  searched counts the directories read.
\* result = ( 0 != strcmp( absPathPtr, g_Options.cssRoot ) ), negated
NoMoreSearch(canon, cssRoot) == canon = cssRoot

\* an ascent that leaves out one "../"
AscentShort(k) == Repeat(UpSlash, IF k > 1 THEN k - 1 ELSE k)

\* the "../" strcat has appended to searchDir after k iterations
Ascent(k) == Repeat(UpSlash, k)

RECURSIVE SearchFrom(_, _, _, _, _, _)
SearchFrom(k, files, dirs, cwd, cssRoot, order) ==
    LET dir     == Up(cwd, k)
        matches == {n \in Entries(files, dirs, dir) : strstr(n, DotCss)}
        canon   == PathText(dir)
    IN  IF matches # {}
        THEN [kind |-> "found", searched |-> k + 1,
              path |-> DotSlash \o Ascent(k) \o FirstListed(matches, order)]
        ELSE IF canon = <<"/">>
        THEN [kind |-> "outside", searched |-> k + 1, path |-> NULL]
        ELSE IF NoMoreSearch(canon, cssRoot)
        THEN [kind |-> "none", searched |-> k + 1, path |-> NULL]
        ELSE SearchFrom(k + 1, files, dirs, cwd, cssRoot, order)

findCssFile(files, dirs, cwd, cssRoot, order) ==
    SearchFrom(0, files, dirs, cwd, cssRoot, order)

(***************************** copyFile ************************************)

\* The read loop of copyFile on a file of the given content: bytesRead and
\* written as the loop leaves them, and what it has written to the page.
RECURSIVE CopyLoop(_, _, _, _)
CopyLoop(content, bytesRead, written, out) ==
    LET size   == Len(content)
        got    == IF size - bytesRead < BlkSize THEN size - bytesRead ELSE BlkSize
        read   == bytesRead + got
        buffer == SubSeq(content, bytesRead + 1, read)
    IN  IF ~(size >= read)
        THEN [bytesRead |-> read, written |-> written, out |-> out]
        ELSE IF read < size
        THEN CopyLoop(content, read, written + 1, out \o buffer)
        ELSE LET last == SubSeq(buffer, 1, read % BlkSize)
             IN  [bytesRead |-> read,
                  written   |-> written * BlkSize + Len(last),
                  out       |-> out \o last]

copyFile(content) ==
    LET r == CopyLoop(content, 0, 0, <<>>)
    IN  [out |-> r.out, ok |-> r.bytesRead = r.written]

(***************************** cmark ***************************************)

\* The renderer is the cmark library.  Of CommonMark the model renders a
\* paragraph of text with inline links [text](target), and escapes the
\* characters HTML reserves.

RECURSIVE IndexFrom(_, _, _)
IndexFrom(s, sub, i) ==
    IF i > Len(s) THEN 0
    ELSE IF StartsAt(s, sub, i) THEN i
    ELSE IndexFrom(s, sub, i + 1)

EscapeChar(c) ==
    CASE c = "\"" -> <<"&quot;">>
      [] c = "<"  -> <<"&lt;">>
      [] c = ">"  -> <<"&gt;">>
      [] c = "&"  -> <<"&amp;">>
      [] OTHER    -> <<c>>

RECURSIVE EscapeText(_)
EscapeText(s) == IF s = <<>> THEN <<>> ELSE EscapeChar(Head(s)) \o EscapeText(Tail(s))

RECURSIVE RenderInline(_)
RenderInline(s) ==
    IF s = <<>> THEN <<>>
    ELSE LET mid == IF s[1] = "[" THEN IndexFrom(s, <<"]", "(">>, 2) ELSE 0
             end == IF mid > 0 THEN IndexFrom(s, <<")">>, mid + 2) ELSE 0
         IN  IF end > 0
             THEN <<"<a href=\"">> \o SubSeq(s, mid + 2, end - 1) \o <<"\"", ">">>
                    \o EscapeText(SubSeq(s, 2, mid - 1)) \o <<"</a>">>
                    \o RenderInline(SubSeq(s, end + 1, Len(s)))
             ELSE EscapeChar(s[1]) \o RenderInline(Tail(s))

cmark_render_html(md) ==
    IF md = <<>> THEN <<>> ELSE <<"<p>">> \o RenderInline(md) \o <<"</p>\n">>

(***************************** the page *************************************)

g_Doctype         == "<!DOCTYPE html>\n"
g_PageOpenTag     == "<html>\n"
g_PageCloseTag    == "</html>\n"
g_HeadOpenTag     == "<head>\n"
g_HeadCloseTag    == "</head>\n"
g_TitleOpenTag    == "<title>"
g_TitleCloseTag   == "</title>\n"
g_CommentOpenTag  == "<!--"
g_CommentCloseTag == "-->\n"
g_LinkOpenTag     == "<link "
g_LinkCloseTag    == " >\n"
g_BodyOpenTag     == "<body>\n"
g_BodyCloseTag    == "</body>\n"

\* A running assembler: the files as it sees them, the page it writes
\* (out), what it has written to the stream (buf), how much of that has
\* reached the file (flushed), and how it ended: "run" while it runs, "exit"
\* with a code, "abort" on a failed assertion.  exit flushes the stream, abort
\* does not.

Running(p) == p.end = "run"

checked_fwrite(p, text) == [p EXCEPT !.buf = @ \o text]

fflush(p) == [p EXCEPT !.flushed = p.buf]

Exit(p, code) == [p EXCEPT !.end = "exit", !.code = code, !.flushed = p.buf]

Abort(p) == [p EXCEPT !.end = "abort"]

\* Each step below is skipped by an assembler that has ended.

makeWebpageFile(p, g, dirs, cwd) ==
    IF ~Running(p) THEN p
    ELSE IF Resolve(cwd, g.root \o DotHtml) \in dirs THEN Abort(p)
    ELSE [p EXCEPT !.out = Resolve(cwd, g.root \o DotHtml),
                   !.files = Write(@, Resolve(cwd, g.root \o DotHtml), <<>>)]

\* if( g_Options.includeDTD ) ...; checked_fwrite( g_PageOpenTag )
addDoctype(p, g) ==
    IF ~Running(p) THEN p
    ELSE checked_fwrite(p, (IF g.options.includeDTD THEN <<g_Doctype>> ELSE <<>>)
                             \o <<g_PageOpenTag>>)

addTitle(p, g) ==
    IF ~Running(p) THEN p
    ELSE checked_fwrite(p, <<g_HeadOpenTag>> \o
           (IF g.options.includeTitle
            THEN <<g_TitleOpenTag>> \o g.root \o <<g_TitleCloseTag>>
            ELSE <<>>))

\* getUserName asserts that the effective user has a name
addAuthor(p, g, env) ==
    IF ~Running(p) \/ ~g.options.includeAuthor THEN p
    ELSE IF env.user = NULL THEN Abort(p)
    ELSE checked_fwrite(p, <<g_CommentOpenTag, "Author is ">> \o env.user
                             \o <<g_CommentCloseTag>>)

addDatetime(p, g, env) ==
    IF ~Running(p) \/ ~g.options.includeDatetime THEN p
    ELSE checked_fwrite(p, <<g_CommentOpenTag, "Datetime is ">> \o env.time
                             \o <<g_CommentCloseTag>>)

\* findCssFile leaves through exit when it reaches "/", includeCSSFile when
\* it gets NULL
WriteLink(p, css) ==
    CASE css.kind = "none"    -> Exit([p EXCEPT !.css = css], EXIT_NO_CSS_FILE)
      [] css.kind = "outside" -> Exit([p EXCEPT !.css = css], EXIT_INVOKED_OUTSIDE_HTML_ROOT)
      [] css.kind = "found"   ->
           checked_fwrite([p EXCEPT !.css = css],
                          <<g_LinkOpenTag, " rel=\"stylesheet\" href=\"">>
                            \o css.path \o <<"\" ", g_LinkCloseTag>>)

\* if( NULL != g_Options.cssRoot ) includeCSSFile()
includeCSSFile(p, g, dirs, cwd, env) ==
    IF ~Running(p) \/ g.options.cssRoot = NULL THEN p
    ELSE WriteLink(p, findCssFile(p.files, dirs, cwd, g.options.cssRoot, env.order))

WriteTxt(p, c) == IF c.ok THEN checked_fwrite(p, c.out) ELSE Abort(checked_fwrite(p, c.out))

includeTxtFile(p, g, cwd) ==
    IF ~Running(p) \/ Resolve(cwd, g.root \o DotTxt) \notin DOMAIN p.files THEN p
    ELSE WriteTxt(p, copyFile(p.files[Resolve(cwd, g.root \o DotTxt)]))

closeHead(p) == IF ~Running(p) THEN p ELSE fflush(checked_fwrite(p, <<g_HeadCloseTag>>))

\* a head with the datetime comment written before the author comment
addWebpageHeadSwapped(p, g, dirs, cwd, env) ==
    closeHead(
      includeTxtFile(
        includeCSSFile(
          addAuthor(addDatetime(addTitle(p, g), g, env), g, env),
          g, dirs, cwd, env),
        g, cwd))

addWebpageHead(p, g, dirs, cwd, env) ==
    closeHead(
      includeTxtFile(
        includeCSSFile(
          addDatetime(addAuthor(addTitle(p, g), g, env), g, env),
          g, dirs, cwd, env),
        g, cwd))

addWebpageBody(p, g, cwd) ==
    IF ~Running(p) THEN p
    ELSE IF Resolve(cwd, g.markdown) \notin DOMAIN p.files THEN Abort(p)
    ELSE fflush(checked_fwrite(p,
           <<g_BodyOpenTag>>
             \o cmark_render_html(p.files[Resolve(cwd, g.markdown)])
             \o (IF g.options.navEmbedCode = NULL THEN <<>>
                 ELSE <<g_CommentOpenTag, " NAVIGATION EMBEDDING GOES HERE \n">>
                        \o g.options.navEmbedCode \o <<g_CommentCloseTag>>)
             \o <<g_BodyCloseTag>>))

closePage(p) ==
    IF ~Running(p) THEN p
    ELSE Exit(checked_fwrite(p, <<g_PageCloseTag>>), EXIT_NORMAL)

makeWebpage(p, g, dirs, cwd, env) ==
    closePage(
      addWebpageBody(
        addWebpageHead(addDoctype(makeWebpageFile(p, g, dirs, cwd), g), g, dirs, cwd, env),
        g, cwd))

\* an assembler that has read its options
NoSearch == [kind |-> "off", searched |-> 0, path |-> NULL]

Started(files, g) ==
    [files |-> files, out |-> NULL, buf |-> <<>>, flushed |-> <<>>,
     end |-> g.end, code |-> g.code, css |-> NoSearch]

\* what an assembler leaves: the files, how it ended, the page it wrote
Ended(p, g) ==
    [files   |-> IF p.out = NULL THEN p.files ELSE Write(p.files, p.out, p.flushed),
     end     |-> p.end,
     code    |-> p.code,
     out     |-> p.out,
     css     |-> p.css,
     options |-> g.options,
     root    |-> g.root]

Run(files, dirs, cwd, g, env) == Ended(makeWebpage(Started(files, g), g, dirs, cwd, env), g)

\* main: one run of the assembler in the directory cwd with the arguments args
main(files, dirs, cwd, args, env) == Run(files, dirs, cwd, getOptions(args), env)

(***************************** sed *****************************************)

MdLink   == DotMd \o <<"\"", ">">>
HtmlLink == DotHtml \o <<"\"", ">">>

\* s/\.md\">/\.html\">/ without the g: the first match only
RECURSIVE sedFirst(_)
sedFirst(s) ==
    IF s = <<>> THEN <<>>
    ELSE IF StartsAt(s, MdLink, 1)
    THEN HtmlLink \o SubSeq(s, 6, Len(s))
    ELSE <<Head(s)>> \o sedFirst(Tail(s))

\* s/\.md\">/\.html\">/g
RECURSIVE sed(_)
sed(s) ==
    IF s = <<>> THEN <<>>
    ELSE IF StartsAt(s, MdLink, 1)
    THEN HtmlLink \o sed(SubSeq(s, 6, Len(s)))
    ELSE <<Head(s)>> \o sed(Tail(s))

(***************************** the site *************************************)

\* The build is run with the markdown root /m and the html root /o.  Under
\* the markdown root lie up to MaxFiles of these files.

MdRoot   == << <<"m">> >>
HtmlName == <<"o">>
HtmlRoot == <<HtmlName>>
SubDir   == <<"d">>

A_md     == <<"a">> \o DotMd
B_md     == <<"b">> \o DotMd
H_md     == <<".", "h">> \o DotMd
A_txt    == <<"a">> \o DotTxt
S_css    == <<"s">> \o DotCss
T_css    == <<"t">> \o DotCss
P_png    == <<"p", ".", "p", "n", "g">>
K_backup == <<"k">> \o DotBackup
Z_html   == <<"z">> \o DotHtml
A_html   == <<"a">> \o DotHtml
\* a text file whose name contains ".css"
C_css_txt == <<"c">> \o DotCss \o DotTxt

\* relative paths of the files a markdown tree is drawn from
SiteFiles ==
    { <<A_md>>, <<B_md>>, <<H_md>>, <<A_txt>>, <<S_css>>, <<P_png>>, <<K_backup>>,
      <<A_html>>, <<C_css_txt>>, <<SubDir, A_md>>, <<SubDir, S_css>> }

\* what a file of the markdown tree holds
ContentOf(rel) ==
    LET n == rel[Len(rel)]
    IN  CASE n = A_md     -> <<"[", "x", "]", "(", "b", ".", "m", "d", ")">>
          [] EndsWith(n, DotMd) /\ n # A_md -> <<"y">>
          [] n = A_txt    -> <<"t">>
          [] n = A_html   -> <<"<a href=\"", "b">> \o MdLink
          [] OTHER        -> <<n[1]>>

Trees == {t \in SUBSET SiteFiles : Cardinality(t) <= MaxFiles}

DirsOf(paths) == UNION {{SubSeq(q, 1, i) : i \in 1..(Len(q) - 1)} : q \in paths}

\* the name of the backup: ${htmlroot}.${dt}, dt the output of date
Timestamp  == <<"0">>
BackupName == HtmlName \o <<".">> \o Timestamp
BackupRoot == <<BackupName>>

Builds == {1, 2}

VARIABLES
    files,      \* the regular files of the file system and their contents
    dirs,       \* its directories
    env,        \* the user, the time as strftime prints it, the listing order
    writable,   \* whether the directory that holds the html root can be written
    conf,       \* the options webpages.sh was started with
    build,      \* per build: where the script is and what it has done
    proc,       \* an assembler started by hand: its directory and arguments
    files0      \* the files before that assembler ran

vars == <<files, dirs, env, writable, conf, build, proc, files0>>

Rebase(path, from, to) == to \o SubSeq(path, Len(from) + 1, Len(path))

\* [[ -d dir ]]
IsDir(dir) == dir \in dirs

HasEntries(dir) == \E q \in (DOMAIN files) \cup dirs : Under(dir, q)

\* mv from to, both in the directory that holds the html root: a rename, or,
\* when to is a directory, a move into it
MvDest(from, to) == IF IsDir(to) THEN Append(to, from[Len(from)]) ELSE to

MvOk(from, to) == writable /\ ~(IsDir(MvDest(from, to)) /\ HasEntries(MvDest(from, to)))

\* the working directory of a process after mv: a process inside the
\* directory that was renamed is inside it under its new name
Followed(cwd, from, to) ==
    IF MvOk(from, to) /\ IsPrefix(from, cwd) THEN Rebase(cwd, from, MvDest(from, to))
    ELSE cwd

mv(from, to) ==
    LET dest == MvDest(from, to)
        ok   == MvOk(from, to)
        move == {q \in DOMAIN files : Under(from, q)}
        stay == (DOMAIN files) \ move
    IN  IF ~ok THEN [files |-> files, dirs |-> dirs]
        ELSE [files |-> [q \in stay \cup {Rebase(m, from, dest) : m \in move} |->
                           IF q \in stay THEN files[q]
                           ELSE files[CHOOSE m \in move : Rebase(m, from, dest) = q]],
              dirs  |-> {IF IsPrefix(from, q) THEN Rebase(q, from, dest) ELSE q : q \in dirs}]

\* mkdir dir
mkdir(dir) == IF writable /\ ~IsDir(dir) THEN dirs \cup {dir} ELSE dirs

\* the words * expands to in the directory cwd: its entries that do not
\* begin with a dot
Glob(cwd) == {n \in Entries(files, dirs, cwd) : n[1] # "."}


\* cp -r * to, run in cwd
cp(cwd, to) ==
    LET srcF == {q \in DOMAIN files : Under(cwd, q) /\ q[Len(cwd) + 1] \in Glob(cwd)}
        srcD == {q \in dirs : Under(cwd, q) /\ q[Len(cwd) + 1] \in Glob(cwd)}
        ok   == IsDir(to) /\ Glob(cwd) # {}
        new  == {Rebase(q, cwd, to) : q \in srcF}
    IN  IF ~ok THEN [files |-> files, dirs |-> dirs]
        ELSE [files |-> [q \in (DOMAIN files) \cup new |->
                           IF q \in new
                           THEN files[CHOOSE m \in srcF : Rebase(m, cwd, to) = q]
                           ELSE files[q]],
              dirs  |-> dirs \cup {Rebase(q, cwd, to) : q \in srcD}]

\* find . -name "*suffix", run in cwd
find(cwd, suffix) ==
    {q \in DOMAIN files : Under(cwd, q) /\ EndsWith(NameOf(q), suffix)}

\* a find that may return before it has visited every match
FindEndsAtOnce(matches, visited) == TRUE

\* find ... -execdir and find ... -delete return when every match is done
FindEnds(matches, visited) == matches \subseteq visited

\* the option words of the script
Word_v == <<"-", "v">>
Word_F == <<"-", "F">>
Word_c == <<"-", "c">>
Word_n == <<"-", "n">>

\* find . -name "*.md" -execdir webpage ${verboseOption} ${flagsOption}
\*     ${cssOption} ${navembedcodeOption} '{}' \;   for the file named name
WebpageArgs(b, name) ==
    (IF conf.verbose = "true" THEN <<Word_v>> ELSE <<>>)
      \o (IF conf.flags # <<>> THEN <<Word_F, conf.flags>> ELSE <<>>)
      \o (IF build[b].css THEN <<Word_c, build[b].abshtmlroot>> ELSE <<>>)
      \o (IF conf.navembedcode # <<>> THEN <<Word_n, conf.navembedcode>> ELSE <<>>)
      \o <<DotSlash \o name>>

\* [[ ${css} ]]: true of every string but the empty one
CssTest(css) == css # ""

(***************************** webpages.sh **********************************)

\* A build is at one of these places of the script:
\*   "off"       not started
\*   "backup"    before the test for an html root to back up
\*   "mkdir"     before the test that no html root is left
\*   "copy"      before cp
\*   "cd"        before cd ${htmlroot}
\*   "assemble"  in find . -name "*.md" -execdir webpage
\*   "rewrite"   in find . -name "*.html" -execdir sed
\*   "cleanMd", "cleanBackup", "cleanTxt"  before each find -delete
\*   "done"      ended, with the exit status in status

NoBuild ==
    [pc |-> "off", cwd |-> MdRoot, abshtmlroot |-> <<>>, css |-> FALSE,
     assembled |-> {}, failed |-> {}, rewritten |-> {}, removed |-> {},
     status |-> 0]

NoProc ==
    [pc |-> "off", cwd |-> <<>>, args |-> <<>>, end |-> "run", code |-> 0,
     out |-> NULL, css |-> NoSearch]

\* the script's work up to cd ${markdownroot}: the options are read
Confs ==
    [css          : {"true", "false"},
     verbose      : {"true", "false"},
     flags        : {<<>>, <<"0", "x", "0", "c">>},
     navembedcode : {<<>>, <<"N", "A", "V">>}]


\* what is there before the build: the markdown tree, perhaps an html root
\* of an earlier build, perhaps a backup of this very second
Olds == {"none", "html", "html+backup"}

FilesAt(tree, old) ==
    LET src  == {MdRoot \o rel : rel \in tree}
        html == IF old = "none" THEN {} ELSE {Append(HtmlRoot, Z_html)}
        bak  == IF old = "html+backup" THEN {Append(BackupRoot, Z_html)} ELSE {}
    IN  [q \in src \cup html \cup bak |->
           IF q \in src THEN ContentOf(q)
           ELSE IF q \in html THEN <<"o", "l", "d">>
           ELSE <<"o", "l", "d", "e", "r">>]

Init ==
    /\ \E tree \in Trees, old \in Olds :
         /\ files = FilesAt(tree, old)
         /\ dirs = {<<>>, MdRoot} \cup DirsOf(DOMAIN FilesAt(tree, old))
    /\ env = [user |-> <<"u">>, time |-> <<"%c">>, order |-> <<>>]
    /\ writable \in BOOLEAN
    /\ conf \in Confs
    /\ build = [b \in Builds |-> IF b = 1 THEN [NoBuild EXCEPT !.pc = "backup"] ELSE NoBuild]
    /\ proc = NoProc
    /\ files0 = files

Other == <<env, writable, conf, proc, files0>>

\* if [[ -d ${htmlroot} ]] then mv ${htmlroot} ${htmlroot}.${dt}
Backup(b) ==
    /\ build[b].pc = "backup"
    /\ LET r == IF IsDir(HtmlRoot) THEN mv(HtmlRoot, BackupRoot)
                ELSE [files |-> files, dirs |-> dirs]
       IN  /\ files' = r.files
           /\ dirs' = r.dirs
    /\ build' = [c \in Builds |->
                   IF c = b THEN [build[b] EXCEPT !.pc = "mkdir"]
                   ELSE IF IsDir(HtmlRoot)
                   THEN [build[c] EXCEPT !.cwd = Followed(@, HtmlRoot, BackupRoot)]
                   ELSE build[c]]
    /\ UNCHANGED Other

\* if [ ! -d ${htmlroot} ] then mkdir ${htmlroot} else exit -1
Mkdir(b) ==
    /\ build[b].pc = "mkdir"
    /\ IF ~IsDir(HtmlRoot)
       THEN /\ dirs' = mkdir(HtmlRoot)
            /\ build' = [build EXCEPT ![b].pc = "copy"]
       ELSE /\ dirs' = dirs
            /\ build' = [build EXCEPT ![b].pc = "done", ![b].status = ShellStatus(-1)]
    /\ UNCHANGED <<files, Other>>

\* cp -r * ${htmlroot}
Copy(b) ==
    /\ build[b].pc = "copy"
    /\ LET r == cp(build[b].cwd, HtmlRoot)
       IN  /\ files' = r.files
           /\ dirs' = r.dirs
    /\ build' = [build EXCEPT ![b].pc = "cd"]
    /\ UNCHANGED Other

\* cd ${htmlroot}; abshtmlroot=${PWD}; if [[ ${css} ]] then cssOption=...
Cd(b) ==
    /\ build[b].pc = "cd"
    /\ LET pwd == IF IsDir(HtmlRoot) THEN HtmlRoot ELSE build[b].cwd
       IN  build' = [build EXCEPT ![b].pc = "assemble",
                                  ![b].cwd = pwd,
                                  ![b].abshtmlroot = PathText(pwd),
                                  ![b].css = CssTest(conf.css)]
    /\ UNCHANGED <<files, dirs, Other>>

\* $? of an assembler that ended as r
Failed(r) == r.end = "abort" \/ ShellStatus(r.code) # 0

Assembled(b, f, r) ==
    /\ files' = r.files
    /\ build' = [build EXCEPT ![b].assembled = @ \cup {f},
                              ![b].failed = IF Failed(r) THEN @ \cup {f} ELSE @]

\* one webpage run of find . -name "*.md" -execdir webpage ... '{}' \;
Assemble(b) ==
    /\ build[b].pc = "assemble"
    /\ \E f \in find(build[b].cwd, DotMd) \ build[b].assembled :
         Assembled(b, f, main(files, dirs, DirOf(f), WebpageArgs(b, NameOf(f)), env))
    /\ UNCHANGED <<dirs, Other>>

\* that find returns; the script goes on whatever the runs returned
AssembleEnds(b) ==
    /\ build[b].pc = "assemble"
    /\ FindEnds(find(build[b].cwd, DotMd), build[b].assembled)
    /\ build' = [build EXCEPT ![b].pc = "rewrite"]
    /\ UNCHANGED <<files, dirs, Other>>

\* one sed run of find . -name "*.html" -execdir sed -i ... '{}' \;
Rewrite(b) ==
    /\ build[b].pc = "rewrite"
    /\ \E f \in find(build[b].cwd, DotHtml) \ build[b].rewritten :
         /\ files' = [files EXCEPT ![f] = sed(@)]
         /\ build' = [build EXCEPT ![b].rewritten = @ \cup {f}]
    /\ UNCHANGED <<dirs, Other>>

RewriteEnds(b) ==
    /\ build[b].pc = "rewrite"
    /\ FindEnds(find(build[b].cwd, DotHtml), build[b].rewritten)
    /\ build' = [build EXCEPT ![b].pc = "cleanMd"]
    /\ UNCHANGED <<files, dirs, Other>>

\* a delete that does not descend: find . -maxdepth 1 -name "*suffix" -delete
DeleteTop(b, suffix, next) ==
    LET gone == {q \in find(build[b].cwd, suffix) : DirOf(q) = build[b].cwd}
    IN  /\ files' = [q \in (DOMAIN files) \ gone |-> files[q]]
        /\ build' = [build EXCEPT ![b].pc = next,
                                  ![b].removed = @ \cup gone,
                                  ![b].status = 0]
        /\ UNCHANGED <<dirs, Other>>

\* find . -name "*suffix" -delete
Delete(b, suffix, next) ==
    LET gone == find(build[b].cwd, suffix)
    IN  /\ files' = [q \in (DOMAIN files) \ gone |-> files[q]]
        /\ build' = [build EXCEPT ![b].pc = next,
                                  ![b].removed = @ \cup gone,
                                  ![b].status = 0]
        /\ UNCHANGED <<dirs, Other>>

CleanMd(b)     == build[b].pc = "cleanMd" /\ Delete(b, DotMd, "cleanBackup")
CleanBackup(b) == build[b].pc = "cleanBackup" /\ Delete(b, DotBackup, "cleanTxt")
CleanTxt(b)    == build[b].pc = "cleanTxt" /\ Delete(b, DotTxt, "done")

Next ==
    \E b \in Builds :
      \/ Backup(b)
      \/ Mkdir(b)
      \/ Copy(b)
      \/ Cd(b)
      \/ Assemble(b)
      \/ AssembleEnds(b)
      \/ Rewrite(b)
      \/ RewriteEnds(b)
      \/ CleanMd(b)
      \/ CleanBackup(b)
      \/ CleanTxt(b)

Spec == Init /\ [][Next]_vars

(***************************** webpage by hand ******************************)

\* The assembler started by hand: in one of the directories /, /o, /o/d,
\* /o/d/e, ... or in /q, with stylesheets in any of the directories, on a.md.

ChainNames == <<"o", "d", "e", "g", "i", "j">>

Chain(k) == [i \in 1..k |-> <<ChainNames[i]>>]

ChainDirs == {Chain(k) : k \in 0..MaxDepth}

Outside == << <<"q">> >>

\* where a stylesheet may lie
CssPlaces == {Append(d, S_css) : d \in ChainDirs} \cup {Append(HtmlRoot, T_css)}

Word_f == <<"-", "f">>

FlagText(i) == <<"0", "x", HexDigits[i + 1]>>

\* webpage -f <flags> a.md, for the flags 0x0 to 0xf
FlagLines == {<<Word_f, FlagText(i), A_md>> : i \in 0..15}

\* the css roots given: every directory of the chain, the html root with a
\* slash at its end, the html root without its first slash
CssRoots == {PathText(d) : d \in ChainDirs} \cup {PathText(HtmlRoot) \o <<"/">>, HtmlName}

\* webpage -c <css root> a.md
CssLines == {<<Word_c, root, A_md>> : root \in CssRoots}

Word_h == <<"-", "h">>

\* webpage; webpage -f; webpage -c; webpage -F a.md; webpage -h
ErrLines == {<<>>, <<Word_f>>, <<Word_c>>, <<Word_F, A_md>>, <<Word_h>>}

Lines == FlagLines \cup CssLines \cup ErrLines \cup {<<A_md>>}

PageInit ==
    /\ \E css \in SUBSET CssPlaces, cwd \in ChainDirs \cup {Outside} :
         /\ files = [q \in css \cup {Append(cwd, A_md)} |->
                       IF q \in css THEN <<"c">> ELSE ContentOf(<<A_md>>)]
         /\ proc = [NoProc EXCEPT !.pc = "ready", !.cwd = cwd]
    /\ dirs = ChainDirs \cup {Outside}
    /\ \E user \in {<<"u">>, NULL}, order \in {<<S_css, T_css>>, <<T_css, S_css>>} :
         env = [user |-> user, time |-> <<"%c">>, order |-> order]
    /\ writable = TRUE
    /\ conf \in {c \in Confs : c.css = "false" /\ c.verbose = "false"
                                /\ c.flags = <<>> /\ c.navembedcode = <<>>}
    /\ build = [b \in Builds |-> NoBuild]
    /\ files0 = files

\* the command line is typed
PageStart ==
    /\ proc.pc = "ready"
    /\ \E line \in Lines : proc' = [proc EXCEPT !.pc = "started", !.args = line]
    /\ UNCHANGED <<files, dirs, env, writable, conf, build, files0>>

PageEnded(r) ==
    /\ files' = r.files
    /\ proc' = [proc EXCEPT !.pc = "ended", !.end = r.end, !.code = r.code,
                            !.out = r.out, !.css = r.css]

\* the assembler runs to its end
PageRun ==
    /\ proc.pc = "started"
    /\ PageEnded(main(files, dirs, proc.cwd, proc.args, env))
    /\ UNCHANGED <<dirs, env, writable, conf, build, files0>>

PageNext == PageStart \/ PageRun

PageSpec == PageInit /\ [][PageNext]_vars

(***************************** properties ***********************************)

\* the directory a path text names, the directory names of the model being
\* one character long
RECURSIVE PathOf(_)
PathOf(text) ==
    IF text = <<>> THEN <<>>
    ELSE IF Head(text) = "/" THEN PathOf(Tail(text))
    ELSE << <<Head(text)>> >> \o PathOf(Tail(text))

Has(doc, element) == \E j \in 1..Len(doc) : doc[j] = element

\* the rest of doc after the first element equal to close
RECURSIVE After(_, _)
After(doc, close) ==
    IF doc = <<>> THEN <<>>
    ELSE IF Head(doc) = close THEN Tail(doc)
    ELSE After(Tail(doc), close)

\* doc without the parts the bits of F name
RECURSIVE Omit(_, _)
Omit(doc, F) ==
    IF doc = <<>> THEN <<>>
    ELSE IF Head(doc) = g_Doctype /\ (F \div 1) % 2 = 1
    THEN Omit(Tail(doc), F)
    ELSE IF Head(doc) = g_TitleOpenTag /\ (F \div 2) % 2 = 1
    THEN Omit(After(doc, g_TitleCloseTag), F)
    ELSE IF /\ Head(doc) = g_CommentOpenTag /\ Len(doc) > 1
            /\ \/ doc[2] = "Datetime is " /\ (F \div 4) % 2 = 1
               \/ doc[2] = "Author is " /\ (F \div 8) % 2 = 1
    THEN Omit(After(doc, g_CommentCloseTag), F)
    ELSE <<Head(doc)>> \o Omit(Tail(doc), F)

Ended0 == proc.pc = "ended"

\* the page an assembler started by hand has written
Page == files[proc.out]

\* the page the same assembler writes for -f 0x0
PageOfNoFlags ==
    LET r == main(files0, dirs, proc.cwd, <<Word_f, FlagText(0), A_md>>, env)
    IN  r.files[r.out]

\* C6: for every flags value F in 0x0..0xF given with -f, the page lacks the
\* DOCTYPE line iff F has bit 0x01, the title iff bit 0x02, the datetime
\* comment iff bit 0x04 and the author comment iff bit 0x08, and is otherwise
\* the page written for F = 0.
C6_FlagBits ==
    \A F \in 0..15 :
      (Ended0 /\ proc.args = <<Word_f, FlagText(F), A_md>> /\ env.user # NULL)
        => /\ proc.end = "exit" /\ proc.code = EXIT_NORMAL
           /\ Has(Page, g_Doctype)     <=> (F \div 1) % 2 = 0
           /\ Has(Page, g_TitleOpenTag) <=> (F \div 2) % 2 = 0
           /\ Has(Page, "Datetime is ") <=> (F \div 4) % 2 = 0
           /\ Has(Page, "Author is ")   <=> (F \div 8) % 2 = 0
           /\ Page = Omit(PageOfNoFlags, F)

\* a page written with -f 0x5: no DOCTYPE, no datetime, title and author
C6_Witness ==
    /\ Ended0 /\ proc.args = <<Word_f, FlagText(5), A_md>> /\ env.user # NULL
    /\ proc.end = "exit" /\ proc.code = EXIT_NORMAL
    /\ ~Has(Page, g_Doctype) /\ ~Has(Page, "Datetime is ")
    /\ Has(Page, g_TitleOpenTag) /\ Has(Page, "Author is ")

\* the assembler was given -c root and has searched for a stylesheet
Searched(root) ==
    /\ Ended0
    /\ proc.args = <<Word_c, root, A_md>>
    /\ proc.css.kind # "off"

\* the number of directories from the start directory up to the boundary
Levels(root) == Len(proc.cwd) - Len(PathOf(root)) + 1

\* C8: for a boundary given as an absolute path and a start directory at or
\* below it, the search returns a stylesheet or ends "not found" after the
\* boundary directory, and reads no directory above the boundary.
C8_Claim ==
    \A root \in CssRoots :
      (Searched(root) /\ root[1] = "/" /\ IsPrefix(PathOf(root), proc.cwd))
        => /\ proc.css.kind \in {"found", "none"}
           /\ proc.css.searched <= Levels(root)
           /\ proc.css.kind = "none" => proc.css.searched = Levels(root)

\* the directories from the start directory up to the boundary that hold an
\* entry whose name contains ".css", by the number of levels above the start
CssLevels(root) ==
    {k \in 0..(Levels(root) - 1) :
       \E n \in Entries(files, dirs, Up(proc.cwd, k)) : strstr(n, DotCss)}

Nearest(root) == CHOOSE k \in CssLevels(root) : \A j \in CssLevels(root) : k <= j

\* C9: when the start directory or an ancestor of it up to the boundary
\* holds an entry whose name contains ".css", the result is "./", one "../"
\* for each level between the start directory and the nearest such
\* directory, and the name of an entry of that directory that contains ".css".
C9_Nearest ==
    \A root \in CssRoots :
      (Searched(root) /\ IsPrefix(PathOf(root), proc.cwd) /\ CssLevels(root) # {})
        => /\ proc.css.kind = "found"
           /\ \E n \in Entries(files, dirs, Up(proc.cwd, Nearest(root))) :
                /\ strstr(n, DotCss)
                /\ proc.css.path = DotSlash \o Repeat(UpSlash, Nearest(root)) \o n
           /\ Has(Page, g_LinkOpenTag)

\* a stylesheet found two levels up, below the boundary, and another found
\* in a directory that holds two
C9_Witness ==
    \E root \in CssRoots :
      /\ Searched(root) /\ IsPrefix(PathOf(root), proc.cwd)
      /\ CssLevels(root) # {} /\ Nearest(root) = 2 /\ Levels(root) > 3
      /\ proc.css.kind = "found"

\* C10: started with CSS enabled in a directory that is not at or below the
\* root given, the assembler ends with the invoked-outside-root code, returns
\* no stylesheet and writes no page with a stylesheet link.
C10_Claim ==
    \A root \in CssRoots :
      (Searched(root) /\ root[1] = "/" /\ ~IsPrefix(PathOf(root), proc.cwd))
        => /\ proc.end = "exit" /\ proc.code = EXIT_INVOKED_OUTSIDE_HTML_ROOT
           /\ proc.css.kind # "found"
           /\ ~Has(Page, g_LinkOpenTag)

\* the build has ended and the script has returned 0
Succeeded(b) == build[b].pc = "done" /\ build[b].status = 0

\* the markdown files of the markdown tree as the build found it
SourceMd == {q \in DOMAIN files0 : Under(MdRoot, q) /\ EndsWith(NameOf(q), DotMd)}

\* D/S.html under the html root for D/S.md under the markdown root
HtmlFor(q) ==
    Append(Rebase(DirOf(q), MdRoot, HtmlRoot), RootOf(NameOf(q)) \o DotHtml)

\* C1: after a build that completes successfully, the html root holds
\* D/S.html for every markdown file D/S.md under the markdown root.
C1_Claim ==
    \A b \in Builds :
      Succeeded(b) => \A q \in SourceMd : HtmlFor(q) \in DOMAIN files

\* C2: no file under the markdown root is created, modified or deleted by
\* the build, whatever the outcome of its steps.
C2_Claim ==
    \A q \in (DOMAIN files) \cup (DOMAIN files0) :
      Under(MdRoot, q) =>
        /\ q \in DOMAIN files
        /\ q \in DOMAIN files0
        /\ files[q] = files0[q]

\* C3: once an assembler run has failed, no other run fails after it, no
\* page is rewritten, no file is deleted, and the build does not end with
\* success.
C3_Claim ==
    \A b \in Builds :
      build[b].failed # {} =>
        /\ Cardinality(build[b].failed) = 1
        /\ build[b].rewritten = {}
        /\ build[b].removed = {}
        /\ ~Succeeded(b)

\* the build has left the step that aborts it
PastAbort(b) == build[b].pc # "done" \/ build[b].status = 0

AfterRewrite  == {"cleanMd", "cleanBackup", "cleanTxt", "done"}
AfterAssemble == {"rewrite"} \cup AfterRewrite

\* C4: the rewrite pass starts only when the assembler has run for every
\* markdown file under the directory the build works in, cleanup starts only
\* when every .html file there has been rewritten; no file is deleted and no
\* page rewritten while pages are assembled.
C4_Order ==
    \A b \in Builds :
      /\ (build[b].pc \in AfterAssemble /\ PastAbort(b)) \/ build[b].rewritten # {}
           => find(build[b].cwd, DotMd) \subseteq build[b].assembled
      /\ (build[b].pc \in AfterRewrite /\ PastAbort(b)) \/ build[b].removed # {}
           => find(build[b].cwd, DotHtml) \subseteq build[b].rewritten
      /\ build[b].pc = "assemble" => build[b].rewritten = {} /\ build[b].removed = {}
      /\ build[b].pc = "rewrite" => build[b].removed = {}
      /\ \A q \in build[b].removed :
           EndsWith(NameOf(q), DotMd) => q \in build[b].assembled

\* a build that has assembled two pages, rewritten them and deleted their
\* markdown files
C4_Witness ==
    \E b \in Builds :
      /\ Cardinality(build[b].assembled) >= 2
      /\ Cardinality(build[b].rewritten) >= 2
      /\ \E q \in build[b].removed : EndsWith(NameOf(q), DotMd)

\* the page the assembler writes for the markdown file q
PageOfMd(q) == Append(DirOf(q), RootOf(NameOf(q)) \o DotHtml)

\* the pages the build has written so far
Pages(b) == {PageOfMd(q) : q \in build[b].assembled} \cap DOMAIN files

\* C5: in a build without the css option no assembler is given a css root,
\* no page holds a stylesheet link, and with no flags and no navigation text
\* no assembler run fails, stylesheet or not.
C5_Claim ==
    \A b \in Builds :
      conf.css = "false" =>
        /\ ~build[b].css
        /\ \A q \in Pages(b) : ~Has(files[q], g_LinkOpenTag)
        /\ (conf.flags = <<>> /\ conf.navembedcode = <<>>) => build[b].failed = {}

\* C7: in a build with flags F every markdown file is assembled
\* successfully, and every page lacks exactly the parts F names: for 0x0c it
\* holds the title and neither the datetime nor the author comment.
C7_Claim ==
    \A b \in Builds :
      conf.flags = <<"0", "x", "0", "c">> =>
        /\ build[b].failed = {}
        /\ \A q \in build[b].assembled :
             /\ PageOfMd(q) \in DOMAIN files
             /\ Has(files[PageOfMd(q)], g_TitleOpenTag)
             /\ ~Has(files[PageOfMd(q)], "Datetime is ")
             /\ ~Has(files[PageOfMd(q)], "Author is ")

(***************************** the rewrite pass, twice **********************)

\* the number of pieces a page is made of
MaxPieces == 3

\* what a page is made of: the characters of the two links, whole links,
\* and the halves of the markdown link
Pieces ==
    {<<".">>, <<"m">>, <<"d">>, <<"h">>, <<"\"">>, <<">">>, <<"\n">>,
     DotMd, <<"\"", ">">>, MdLink, HtmlLink}

PiecesOf(n) == [1..n -> Pieces]

Contents == {Cat(ps) : ps \in UNION {PiecesOf(n) : n \in 0..MaxPieces}}

\* the html root holds one page; the rewrite pass of a build is about to
\* run over it
SedInit ==
    /\ \E content \in Contents : files = (Append(HtmlRoot, Z_html) :> content)
    /\ dirs = {<<>>, HtmlRoot}
    /\ env = [user |-> <<"u">>, time |-> <<"%c">>, order |-> <<>>]
    /\ writable = TRUE
    /\ conf \in {c \in Confs : c.css = "false" /\ c.verbose = "false"
                                /\ c.flags = <<>> /\ c.navembedcode = <<>>}
    /\ build = [b \in Builds |->
                  IF b = 1 THEN [NoBuild EXCEPT !.pc = "rewrite", !.cwd = HtmlRoot]
                  ELSE NoBuild]
    /\ proc = NoProc
    /\ files0 = files

\* the rewrite pass is started once more, over what the first has left
SedAgain ==
    /\ build[1].pc = "cleanMd"
    /\ build[2].pc = "off"
    /\ build' = [build EXCEPT ![2].pc = "rewrite", ![2].cwd = HtmlRoot]
    /\ UNCHANGED <<files, dirs, Other>>

SedNext ==
    \/ \E b \in Builds : Rewrite(b)
    \/ \E b \in Builds : RewriteEnds(b)
    \/ SedAgain

SedSpec == SedInit /\ [][SedNext]_vars

\* the pages a rewrite pass has been over
Rewritten == build[1].rewritten \cup build[2].rewritten

\* C11: after one rewrite pass over a page no .md"> is left in it, and a
\* second pass over the rewritten page changes nothing.
C11_Idempotent ==
    /\ [](\A f \in Rewritten : ~strstr(files[f], MdLink))
    /\ [][build[2].pc = "rewrite" => files' = files]_vars

\* a second pass has been over a page that held two markdown links, one
\* right after the other
C11_Witness ==
    \E f \in build[2].rewritten :
      /\ files0[f] = MdLink \o MdLink
      /\ files[f] = HtmlLink \o HtmlLink

(***************************** cross-links ***********************************)

\* the markdown files of the site that link to a markdown file lying next
\* to them: a.md holds [x](b.md)
Linking == {q \in SourceMd : NameOf(q) = A_md /\ Append(DirOf(q), B_md) \in SourceMd}

\* <a href="name">
Anchor(name) == <<"<a href=\"">> \o name \o <<"\"", ">">>

\* C12: after a build with css disabled and default flags, the page of
\* every markdown file that links to another as [x](b.md) links to b.html
\* and not to b.md, b.html exists, and no .md file is left.
C12_Claim ==
    \A b \in Builds :
      (Succeeded(b) /\ conf.css = "false" /\ conf.flags = <<>>) =>
        /\ \A q \in Linking :
             /\ HtmlFor(q) \in DOMAIN files
             /\ strstr(files[HtmlFor(q)], Anchor(RootOf(B_md) \o DotHtml))
             /\ ~strstr(files[HtmlFor(q)], Anchor(B_md))
             /\ HtmlFor(Append(DirOf(q), B_md)) \in DOMAIN files
        /\ find(HtmlRoot, DotMd) = {}

\* the same, for the builds in which every assembler run has succeeded
C12_WhenAssembled ==
    \A b \in Builds :
      (Succeeded(b) /\ build[b].failed = {} /\ build[b].cwd = HtmlRoot) =>
        /\ \A q \in Linking :
             /\ HtmlFor(q) \in DOMAIN files
             /\ strstr(files[HtmlFor(q)], Anchor(RootOf(B_md) \o DotHtml))
             /\ ~strstr(files[HtmlFor(q)], Anchor(B_md))
             /\ HtmlFor(Append(DirOf(q), B_md)) \in DOMAIN files
        /\ find(HtmlRoot, DotMd) = {}

(***************************** cleanup ***************************************)

CleanupPlaces == {"cleanMd", "cleanBackup", "cleanTxt"}

\* a name none of the three patterns of the cleanup matches
Kept(name) ==
    ~EndsWith(name, DotMd) /\ ~EndsWith(name, DotTxt) /\ ~EndsWith(name, DotBackup)

\* C13: after the cleanup no file named *.md, *.txt or *.backup is left at
\* any depth under the html root, and a step of the cleanup neither deletes
\* nor changes a file under the html root whose name matches none of these.
C13_Cleanup ==
    /\ [](\A b \in Builds : Succeeded(b) =>
            \A q \in DOMAIN files : Under(HtmlRoot, q) => Kept(NameOf(q)))
    /\ [][\A b \in Builds : build[b].pc \in CleanupPlaces =>
            \A q \in DOMAIN files :
              (Under(HtmlRoot, q) /\ Kept(NameOf(q))) =>
                 q \in DOMAIN files' /\ files'[q] = files[q]]_vars

\* a cleanup that has deleted a markdown file of a sub-directory, a text
\* file and a backup file, and has left a page
C13_Witness ==
    \E b \in Builds :
      /\ Succeeded(b)
      /\ HtmlRoot \o <<SubDir, A_md>> \in build[b].removed
      /\ \E q \in build[b].removed : EndsWith(NameOf(q), DotTxt) \/ EndsWith(NameOf(q), DotBackup)
      /\ \E q \in DOMAIN files : Under(HtmlRoot, q) /\ EndsWith(NameOf(q), DotHtml)

(***************************** backup ****************************************)

\* the files of the html root, and of a backup, the build has found
OldHtml   == {q \in DOMAIN files0 : Under(HtmlRoot, q)}
OldBackup == {q \in DOMAIN files0 : Under(BackupRoot, q)}

\* the build has ended at "Unexpected HTML root found, aborting"
Aborted(b) == build[b].pc = "done" /\ build[b].status = ShellStatus(-1)

\* the build is past the test that aborts it
Building(b) == build[b].pc \notin {"off", "backup", "mkdir"} /\ ~Aborted(b)

\* C14: when the html root exists at the start of a build, its files are
\* afterwards under <html-root>.<timestamp> at the same relative paths with
\* the same content; the build creates and changes files only under the new
\* html root; the files of an earlier backup stay as they were and nothing
\* is added to it; and a build that finds the html root still there after
\* the rename ends before it copies anything.
C14_Claim ==
    \A b \in Builds :
      /\ Building(b) =>
           /\ \A q \in OldHtml :
                /\ Rebase(q, HtmlRoot, BackupRoot) \in DOMAIN files
                /\ files[Rebase(q, HtmlRoot, BackupRoot)] = files0[q]
           /\ \A q \in DOMAIN files :
                Under(BackupRoot, q) =>
                  q \in OldBackup \/ Rebase(q, BackupRoot, HtmlRoot) \in OldHtml
           /\ \A q \in OldBackup : q \in DOMAIN files /\ files[q] = files0[q]
           /\ \A q \in DOMAIN files :
                (q \notin DOMAIN files0 \/ files[q] # files0[q]) =>
                   Under(HtmlRoot, q) \/ Under(BackupRoot, q)
      /\ Aborted(b) => files = files0 /\ build[b].assembled = {}

\* C14, for the builds that find no backup of the same second and can
\* create the html root
C14_OneBackupASecond == (OldBackup = {} /\ writable) => C14_Claim

(***************************** mirror ****************************************)

\* C15: right after the copy step every file and every directory under the
\* markdown root, whatever its name, is under the html root at the same
\* relative path, the files with the same content.
C15_Claim ==
    \A b \in Builds :
      build[b].pc = "cd" =>
        /\ \A q \in DOMAIN files0 :
             Under(MdRoot, q) =>
               /\ Rebase(q, MdRoot, HtmlRoot) \in DOMAIN files
               /\ files[Rebase(q, MdRoot, HtmlRoot)] = files0[q]
        /\ \A d \in dirs : Under(MdRoot, d) => Rebase(d, MdRoot, HtmlRoot) \in dirs

(***************************** the page's name *******************************)

\* The assembler started by hand in the html root or in a directory below
\* it, on markdown files of several names, given as name.md and ./name.md.

Stems == {<<"a">>, <<"a", ".", "b">>, <<".", "h">>, <<"x">> \o DotCss, <<"a">> \o DotHtml}

NamePrefixes == {<<>>, DotSlash}

NameOptions == {<<>>, <<Word_f, FlagText(3)>>, <<Word_c, PathText(HtmlRoot)>>}

\* webpage [-f 0x3 | -c /o] [./]<stem>.md
NameLines ==
    {opts \o <<pre \o stem \o DotMd>> :
       opts \in NameOptions, pre \in NamePrefixes, stem \in Stems}

\* the size of the largest sidecar
MaxTxt == 5

\* the sidecars: the first n of these bytes
TxtBytes == <<"1", "2", "3", "4", "5", "6", "7", "8">>

TxtContents == {SubSeq(TxtBytes, 1, n) : n \in 0..MaxTxt}

NameInit ==
    /\ \E cwd \in {HtmlRoot, Append(HtmlRoot, SubDir)},
          more \in SUBSET {A_txt, S_css, <<"a">> \o DotHtml, P_png},
          txt \in TxtContents :
         /\ files = [q \in {Append(cwd, stem \o DotMd) : stem \in Stems}
                             \cup {Append(cwd, n) : n \in more} |->
                       IF NameOf(q) = A_txt THEN txt ELSE ContentOf(<<NameOf(q)>>)]
         /\ proc = [NoProc EXCEPT !.pc = "ready", !.cwd = cwd]
    /\ dirs = {<<>>, HtmlRoot, Append(HtmlRoot, SubDir)}
    /\ env = [user |-> <<"u">>, time |-> <<"%c">>, order |-> <<>>]
    /\ writable = TRUE
    /\ conf \in {c \in Confs : c.css = "false" /\ c.verbose = "false"
                                /\ c.flags = <<>> /\ c.navembedcode = <<>>}
    /\ build = [b \in Builds |-> NoBuild]
    /\ files0 = files

\* the command line is typed
NameStart ==
    /\ proc.pc = "ready"
    /\ \E line \in NameLines : proc' = [proc EXCEPT !.pc = "started", !.args = line]
    /\ UNCHANGED <<files, dirs, env, writable, conf, build, files0>>

NameNext == NameStart \/ PageRun

NameSpec == NameInit /\ [][NameNext]_vars

\* the assembler has built a page: it has left through exit( EXIT_NORMAL )
\* at the end of main
Built == Ended0 /\ proc.end = "exit" /\ proc.code = EXIT_NORMAL

\* the assembler was given the markdown file stem.md, as it is or as ./stem.md
GivenStem(stem) ==
    \E pre \in NamePrefixes : proc.args[Len(proc.args)] = pre \o stem \o DotMd

\* C16: an assembler that has built the page of name.md leaves name.html in
\* its directory, name being the file name without its last extension, and
\* has created or changed no other file.
C16_OnePage ==
    \A stem \in Stems :
      (Built /\ GivenStem(stem)) =>
        /\ Append(proc.cwd, stem \o DotHtml) \in DOMAIN files
        /\ proc.out = Append(proc.cwd, stem \o DotHtml)
        /\ \A q \in (DOMAIN files) \cup (DOMAIN files0) :
             q # Append(proc.cwd, stem \o DotHtml) =>
               /\ q \in DOMAIN files
               /\ q \in DOMAIN files0
               /\ files[q] = files0[q]

\* the page a.b.html built from ./a.b.md next to a sidecar and a stylesheet
C16_Witness ==
    /\ Built
    /\ proc.args[Len(proc.args)] = DotSlash \o <<"a", ".", "b">> \o DotMd
    /\ Append(proc.cwd, <<"a", ".", "b">> \o DotHtml) \in DOMAIN files
    /\ Append(proc.cwd, <<"a", ".", "b">> \o DotHtml) \notin DOMAIN files0
    /\ Append(proc.cwd, A_txt) \in DOMAIN files

(***************************** navigation *************************************)

\* the comment addWebpageBody writes for the text nav, and the tag after it
NavComment(nav) ==
    <<g_CommentOpenTag, " NAVIGATION EMBEDDING GOES HERE \n">> \o nav
      \o <<g_CommentCloseTag, g_BodyCloseTag>>

\* C17: in a build with a navigation text every markdown file is assembled
\* successfully and the body of every page ends with a comment holding the
\* text, right before </body>; in a build without one no page holds such a
\* comment.
C17_Claim ==
    \A b \in Builds :
      /\ conf.navembedcode # <<>> =>
           /\ build[b].failed = {}
           /\ \A q \in build[b].assembled :
                /\ PageOfMd(q) \in DOMAIN files
                /\ strstr(files[PageOfMd(q)], NavComment(conf.navembedcode))
      /\ conf.navembedcode = <<>> =>
           \A q \in Pages(b) : ~Has(files[q], " NAVIGATION EMBEDDING GOES HERE \n")

(***************************** exit codes *************************************)

ErrorCodes ==
    {EXIT_NO_MARKDOWN, EXIT_MISSING_VALUE, EXIT_UNKNOWN_OPTION, EXIT_NO_CSS_FILE,
     EXIT_ABS_PATH_REQUIRED, EXIT_INVOKED_OUTSIDE_HTML_ROOT}

\* the assembler has left through exit with this code
ExitedWith(code) == Ended0 /\ proc.end = "exit" /\ proc.code = code

\* C18: each of the six error conditions ends the assembler with its own
\* code, the six codes and 0 being seven different exit statuses; a page
\* built and -h end with 0.
C18_Claim ==
    /\ Cardinality({ShellStatus(c) : c \in ErrorCodes \cup {EXIT_NORMAL}}) = 7
    /\ Ended0 =>
         /\ proc.args = <<>> => ExitedWith(EXIT_NO_MARKDOWN)
         /\ proc.args \in {<<Word_f>>, <<Word_c>>} => ExitedWith(EXIT_MISSING_VALUE)
         /\ proc.args = <<Word_F, A_md>> => ExitedWith(EXIT_UNKNOWN_OPTION)
         /\ proc.args = <<Word_c, HtmlName, A_md>> => ExitedWith(EXIT_ABS_PATH_REQUIRED)
         /\ proc.css.kind = "none" => ExitedWith(EXIT_NO_CSS_FILE)
         /\ proc.css.kind = "outside" => ExitedWith(EXIT_INVOKED_OUTSIDE_HTML_ROOT)
         /\ proc.args = <<Word_h>> => ExitedWith(EXIT_NORMAL)
         /\ (proc.args = <<A_md>> /\ env.user # NULL) => ExitedWith(EXIT_NORMAL)

\* C18 without the condition of the option given without its value
C18_ButMissingValue ==
    /\ Cardinality({ShellStatus(c) : c \in ErrorCodes \cup {EXIT_NORMAL}}) = 7
    /\ Ended0 =>
         /\ proc.args = <<>> => ExitedWith(EXIT_NO_MARKDOWN)
         /\ proc.args = <<Word_F, A_md>> => ExitedWith(EXIT_UNKNOWN_OPTION)
         /\ proc.args = <<Word_c, HtmlName, A_md>> => ExitedWith(EXIT_ABS_PATH_REQUIRED)
         /\ proc.css.kind = "none" => ExitedWith(EXIT_NO_CSS_FILE)
         /\ proc.css.kind = "outside" => ExitedWith(EXIT_INVOKED_OUTSIDE_HTML_ROOT)
         /\ proc.args = <<Word_h>> => ExitedWith(EXIT_NORMAL)
         /\ (proc.args = <<A_md>> /\ env.user # NULL) => ExitedWith(EXIT_NORMAL)

(***************************** the sidecar ************************************)

\* the sidecar of a.md in the directory of the assembler
Sidecar == Append(proc.cwd, A_txt)

\* the files the assembler has found, without the sidecar
NoSidecar == [q \in (DOMAIN files0) \ {Sidecar} |-> files0[q]]

\* the page the same assembler writes when there is no sidecar
PageOfNoSidecar ==
    LET r == main(NoSidecar, dirs, proc.cwd, proc.args, env)
    IN  r.files[r.out]

\* doc with txt put in right before the head closes
RECURSIVE InHead(_, _)
InHead(doc, txt) ==
    IF doc = <<>> THEN <<>>
    ELSE IF Head(doc) = g_HeadCloseTag THEN txt \o doc
    ELSE <<Head(doc)>> \o InHead(Tail(doc), txt)

\* the assembler was started on a.md and has ended
EndedOnA == Ended0 /\ GivenStem(<<"a">>)

\* C19: with a sidecar a.txt of any size the assembler builds the page of
\* a.md, and the page is the page built without the sidecar with the
\* sidecar's bytes put in once, unchanged, right before the head closes;
\* without a sidecar the page is built.
C19_Claim ==
    EndedOnA =>
      /\ Built
      /\ Sidecar \in DOMAIN files0 => Page = InHead(PageOfNoSidecar, files0[Sidecar])

\* C19 for the sidecars whose size is 0 or no multiple of the block size
C19_NoWholeBlocks ==
    (EndedOnA /\ (Sidecar \in DOMAIN files0 =>
                    Len(files0[Sidecar]) = 0 \/ Len(files0[Sidecar]) % BlkSize # 0)) =>
      /\ Built
      /\ Sidecar \in DOMAIN files0 => Page = InHead(PageOfNoSidecar, files0[Sidecar])

(***************************** assets *****************************************)

\* the files of the markdown tree that are no markdown, and that the
\* cleanup keeps
Assets == {q \in DOMAIN files0 : Under(MdRoot, q) /\ Kept(NameOf(q))}

\* C20: at the end of the build every copied file whose name matches none
\* of *.md, *.txt, *.backup holds under the html root the bytes it holds in
\* the markdown tree.
C20_Claim ==
    \A b \in Builds :
      Succeeded(b) =>
        \A q \in Assets :
          Rebase(q, MdRoot, HtmlRoot) \in DOMAIN files =>
            files[Rebase(q, MdRoot, HtmlRoot)] = files0[q]

\* C20 for the copied files that are no .html files
C20_ButHtml ==
    \A b \in Builds :
      Succeeded(b) =>
        \A q \in Assets :
          (Rebase(q, MdRoot, HtmlRoot) \in DOMAIN files /\ ~EndsWith(NameOf(q), DotHtml)) =>
            files[Rebase(q, MdRoot, HtmlRoot)] = files0[q]

(***************************** options together *****************************)

\* The assembler started by hand on a.md with any of its options -v, -f,
\* -c, -n, in any order, each value as a word of its own (-f 0x5) or
\* attached to its option (-f0x5).

OptNames == {"v", "f", "c", "n"}

Forms == {"apart", "attached"}

\* the flags given with -f in these command lines
OptFlags == 0..15

TheNav == <<"N", "A", "V">>

OptValue(name, F) ==
    CASE name = "f" -> FlagText(F)
      [] name = "c" -> PathText(HtmlRoot)
      [] name = "n" -> TheNav

\* the words of one option
OptWords(name, form, F) ==
    IF name = "v" THEN <<Word_v>>
    ELSE IF form = "apart" THEN <<<<"-", name>>, OptValue(name, F)>>
    ELSE <<<<"-", name>> \o OptValue(name, F)>>

\* the orders in which some of the options can be given, each once
OptOrders ==
    {o \in UNION {[1..k -> OptNames] : k \in 0..Cardinality(OptNames)} :
       \A i, j \in DOMAIN o : i # j => o[i] # o[j]}

OptLine(o, form, F) ==
    Cat([i \in DOMAIN o |-> OptWords(o[i], form, F)]) \o <<A_md>>

OptLines == {OptLine(o, form, F) : o \in OptOrders, form \in Forms, F \in OptFlags}

OptInit ==
    /\ \E cwd \in {HtmlRoot, Append(HtmlRoot, SubDir)}, txt \in BOOLEAN, css \in BOOLEAN :
         /\ files = [q \in {Append(cwd, A_md)}
                             \cup (IF txt THEN {Append(cwd, A_txt)} ELSE {})
                             \cup (IF css THEN {Append(HtmlRoot, S_css)} ELSE {}) |->
                       ContentOf(<<NameOf(q)>>)]
         /\ proc = [NoProc EXCEPT !.pc = "ready", !.cwd = cwd]
    /\ dirs = {<<>>, HtmlRoot, Append(HtmlRoot, SubDir)}
    /\ env = [user |-> <<"u">>, time |-> <<"%c">>, order |-> <<>>]
    /\ writable = TRUE
    /\ conf \in {c \in Confs : c.css = "false" /\ c.verbose = "false"
                                /\ c.flags = <<>> /\ c.navembedcode = <<>>}
    /\ build = [b \in Builds |-> NoBuild]
    /\ files0 = files

\* the command line is typed
OptStart ==
    /\ proc.pc = "ready"
    /\ \E line \in OptLines : proc' = [proc EXCEPT !.pc = "started", !.args = line]
    /\ UNCHANGED <<files, dirs, env, writable, conf, build, files0>>

OptNext == OptStart \/ PageRun

OptSpec == OptInit /\ [][OptNext]_vars

(***************************** the document ********************************)

\* the parts of a document in the order given for them: o the options in
\* force, link the stylesheet search's result, txt the sidecar's bytes (none
\* if there is no sidecar), md the markdown text
Document(o, title, link, txt, md, e) ==
    (IF o.includeDTD THEN <<g_Doctype>> ELSE <<>>)
      \o <<g_PageOpenTag, g_HeadOpenTag>>
      \o (IF o.includeTitle
          THEN <<g_TitleOpenTag>> \o title \o <<g_TitleCloseTag>> ELSE <<>>)
      \o (IF o.includeAuthor
          THEN <<g_CommentOpenTag, "Author is ">> \o e.user \o <<g_CommentCloseTag>>
          ELSE <<>>)
      \o (IF o.includeDatetime
          THEN <<g_CommentOpenTag, "Datetime is ">> \o e.time \o <<g_CommentCloseTag>>
          ELSE <<>>)
      \o (IF o.cssRoot # NULL
          THEN <<g_LinkOpenTag, " rel=\"stylesheet\" href=\"">> \o link.path
                 \o <<"\" ", g_LinkCloseTag>>
          ELSE <<>>)
      \o txt
      \o <<g_HeadCloseTag, g_BodyOpenTag>>
      \o cmark_render_html(md)
      \o (IF o.navEmbedCode # NULL
          THEN <<g_CommentOpenTag, " NAVIGATION EMBEDDING GOES HERE \n">>
                 \o o.navEmbedCode \o <<g_CommentCloseTag>>
          ELSE <<>>)
      \o <<g_BodyCloseTag, g_PageCloseTag>>

SidecarBytes == IF Sidecar \in DOMAIN files0 THEN files0[Sidecar] ELSE <<>>

Given(o, name) == \E i \in DOMAIN o : o[i] = name

\* the options a command line asks for, each as it would apply alone
Intended(o, F) ==
    LET f == IF Given(o, "f") THEN F ELSE 0
    IN  [includeDTD      |-> (f \div 1) % 2 = 0,
         includeTitle    |-> (f \div 2) % 2 = 0,
         includeDatetime |-> (f \div 4) % 2 = 0,
         includeAuthor   |-> (f \div 8) % 2 = 0,
         cssRoot         |-> IF Given(o, "c") THEN PathText(HtmlRoot) ELSE NULL,
         navEmbedCode    |-> IF Given(o, "n") THEN TheNav ELSE NULL,
         verbose         |-> Given(o, "v")]

\* the run ends as the options ask: with the page of these options, or with
\* the stylesheet's error when -c is given and no stylesheet exists
AsIntended(o, F) ==
    IF Given(o, "c") /\ Append(HtmlRoot, S_css) \notin DOMAIN files0
    THEN ExitedWith(EXIT_NO_CSS_FILE)
    ELSE /\ Built
         /\ Given(o, "c") => proc.css.kind = "found"
         /\ Page = Document(Intended(o, F), <<"a">>, proc.css, SidecarBytes,
                            files0[Append(proc.cwd, A_md)], env)

\* C23: for every command line of two or more of -v, -f flags, -c path,
\* -n text, in any order, each value the word after its option, followed by
\* the markdown file's name, the run ends as it would with each option
\* applied alone: every option has the value that followed it and the last
\* word is the markdown file.
C23_Claim ==
    \A o \in OptOrders, F \in OptFlags :
      (Ended0 /\ Len(o) >= 2 /\ proc.args = OptLine(o, "apart", F))
        => AsIntended(o, F)

\* C23 for the command lines whose values are attached to their options
C23_Attached ==
    \A o \in OptOrders, F \in OptFlags :
      (Ended0 /\ Len(o) >= 2 /\ proc.args = OptLine(o, "attached", F))
        => AsIntended(o, F)

\* C23 for the command lines of one option, or of -v and one option after it
C23_Alone ==
    \A o \in OptOrders, F \in OptFlags :
      (Ended0 /\ proc.args = OptLine(o, "apart", F)
              /\ (Len(o) <= 1 \/ (Len(o) = 2 /\ o[1] = "v")))
        => AsIntended(o, F)

(***************************** a failed page *******************************)

\* the assembler has ended with a status other than 0 or in a failed assertion
FailedRun == Ended0 /\ (proc.end = "abort" \/ proc.code # EXIT_NORMAL)

\* C24: whenever the assembler ends with a non-zero status or in a failed
\* assertion, it has created no file and changed no file: the page
\* <stem>.html does not exist if it did not exist before, and has the bytes
\* it had before if it did.
C24_Claim == FailedRun => files = files0

\* C24 for the runs that end while the command line is read
C24_InputErrors ==
    (FailedRun /\ proc.end = "exit"
       /\ proc.code \in {EXIT_NO_MARKDOWN, EXIT_MISSING_VALUE,
                         EXIT_UNKNOWN_OPTION, EXIT_ABS_PATH_REQUIRED})
      => files = files0

(***************************** stylesheet links ****************************)

\* the text between href=" and the quote that closes it, for a page with a
\* stylesheet link
RECURSIVE UpTo(_, _)
UpTo(doc, close) ==
    IF doc = <<>> \/ Head(doc) = close THEN <<>>
    ELSE <<Head(doc)>> \o UpTo(Tail(doc), close)

Href(doc) == UpTo(Tail(After(doc, g_LinkOpenTag)), "\" ")

\* the file a relative reference made in directory dir names
RECURSIVE Target(_, _)
Target(dir, ref) ==
    IF StartsAt(ref, DotSlash, 1) THEN Target(dir, SubSeq(ref, 3, Len(ref)))
    ELSE IF StartsAt(ref, UpSlash, 1) THEN Target(Parent(dir), SubSeq(ref, 4, Len(ref)))
    ELSE Append(dir, ref)

\* the pages with a stylesheet link under the html root
Linked ==
    {q \in DOMAIN files :
       Under(HtmlRoot, q) /\ EndsWith(NameOf(q), DotHtml) /\ Has(files[q], g_LinkOpenTag)}

\* C25: after a build that completes successfully, the href of the
\* stylesheet link of every page under the html root names a file that
\* exists at that place relative to the page, whatever the names in the tree.
C25_Claim ==
    \A b \in Builds :
      Succeeded(b) =>
        \A q \in Linked : Target(DirOf(q), Href(files[q])) \in DOMAIN files

\* C25 for the trees without a *.md, *.txt or *.backup name that contains
\* ".css"
C25_ButDeletedNames ==
    \A b \in Builds :
      (Succeeded(b) /\ \A q \in DOMAIN files0 :
                           strstr(NameOf(q), DotCss) => Kept(NameOf(q)))
        => \A q \in Linked : Target(DirOf(q), Href(files[q])) \in DOMAIN files

(***************************** the order of assembly ***********************)

\* A build of a markdown tree in which a markdown file's name contains
\* ".css", so that its page's name does too.  readdir delivers the names that
\* contain ".css" in a fixed order, one of ListingOrders.

X_css_md   == <<"x">> \o DotCss \o DotMd
X_css_html == <<"x">> \o DotCss \o DotHtml

OrderFiles == { <<B_md>>, <<X_css_md>>, <<S_css>>, <<SubDir, A_md>> }

ListingOrders ==
    {o \in [1..3 -> {X_css_md, X_css_html, S_css}] :
       \A i, j \in 1..3 : i # j => o[i] # o[j]}

OrderInit ==
    /\ \E tree \in SUBSET OrderFiles :
         /\ files = FilesAt(tree, "none")
         /\ dirs = {<<>>, MdRoot} \cup DirsOf(DOMAIN FilesAt(tree, "none"))
    /\ \E o \in ListingOrders : env = [user |-> <<"u">>, time |-> <<"%c">>, order |-> o]
    /\ writable = TRUE
    /\ conf \in {c \in Confs : c.flags = <<>> /\ c.navembedcode = <<>>}
    /\ build = [b \in Builds |-> IF b = 1 THEN [NoBuild EXCEPT !.pc = "backup"] ELSE NoBuild]
    /\ proc = NoProc
    /\ files0 = files

OrderSpec == OrderInit /\ [][Next]_vars

\* the html root without the pages written so far: the tree as cp left it,
\* the markdown tree holding no page
Fresh(b) == [q \in (DOMAIN files) \ Pages(b) |-> files[q]]

\* how the assembler ends for the markdown file f on the tree fs, and the
\* page it leaves
PageBy(fs, b, f) ==
    LET r == main(fs, dirs, DirOf(f), WebpageArgs(b, NameOf(f)), env)
    IN  [end |-> r.end, code |-> r.code,
         page |-> IF r.out = NULL THEN <<>> ELSE r.files[r.out]]

\* the markdown files find has still to visit
ToAssemble(b) == find(build[b].cwd, DotMd) \ build[b].assembled

\* C22: at every point of the assembly pass, the page the assembler writes
\* for a markdown file is the page it writes for it when no other page has
\* been written yet, so that the final tree is the same for every order.
C22_Claim ==
    \A b \in Builds :
      build[b].pc = "assemble" =>
        \A f \in ToAssemble(b) : PageBy(files, b, f) = PageBy(Fresh(b), b, f)

\* C22 for the trees in which no markdown file's name contains ".css"
C22_ButCssNames ==
    \A b \in Builds :
      (build[b].pc = "assemble"
         /\ \A q \in DOMAIN files0 :
              EndsWith(NameOf(q), DotMd) => ~strstr(NameOf(q), DotCss))
        => \A f \in ToAssemble(b) : PageBy(files, b, f) = PageBy(Fresh(b), b, f)

(***************************** two builds at once **************************)

\* Two runs of the script on the same markdown root and html root, started
\* before either has ended; their steps interleave in any way.

TwoFiles == { <<A_md>>, <<B_md>>, <<S_css>> }

TwoInit ==
    /\ \E tree \in (SUBSET TwoFiles) \ {{}}, old \in {"none", "html"} :
         /\ files = FilesAt(tree, old)
         /\ dirs = {<<>>, MdRoot} \cup DirsOf(DOMAIN FilesAt(tree, old))
    /\ env = [user |-> <<"u">>, time |-> <<"%c">>, order |-> <<>>]
    /\ writable = TRUE
    /\ conf \in {c \in Confs : c.flags = <<>> /\ c.navembedcode = <<>> /\ c.verbose = "false"}
    /\ build = [b \in Builds |-> [NoBuild EXCEPT !.pc = "backup"]]
    /\ proc = NoProc
    /\ files0 = files

TwoSpec == TwoInit /\ [][Next]_vars

\* the places of the script after cd ${htmlroot}: the build assembles,
\* rewrites or deletes in its working directory
WorkPlaces == {"assemble", "rewrite"} \cup CleanupPlaces

\* C26: under every interleaving of two builds of the same html root, the
\* two are never at the same time at work (assembling, rewriting, deleting)
\* in the same directory.
C26_Claim ==
    \A b, c \in Builds :
      (b # c /\ build[b].pc \in WorkPlaces /\ build[c].pc \in WorkPlaces)
        => build[b].cwd # build[c].cwd

====
